---- MODULE Spec2Model ----
(***************************************************************************)
(* Model of the flutter_rust_bridge code generator fragments:              *)
(*   frb_codegen/src/generator/rust/ty_delegate.rs  (wire2api_body)        *)
(*   frb_codegen/src/commands.rs                    (cbindgen, ffigen, ...)*)
(*   frb_codegen/src/generator/c/mod.rs             (generate_dummy)       *)
(*                                                                         *)
(* The generators emit program text.  The model represents emitted text by *)
(* its structure (match arms, statements, characters) and gives each       *)
(* emitted fragment the meaning the Rust or C compiler gives it.           *)
(***************************************************************************)
EXTENDS Integers, Sequences, FiniteSets, TLC

VARIABLES
    tIr,        \* the IrTypeTime of the delegate: Naive, Utc, Local, Duration
    tTarget,    \* "io" | "wasm": the target whose decode body is executed
    tSelf,      \* the wire time integer `self` (an i64), as sign + limbs
    tS,         \* `s` of the generated body (an i64), as sign + limbs
    tNs,        \* `ns` of the generated body
    tApi,       \* the API value the generated body evaluates to
    tPc,        \* "wire" before the generated body has run, "api" after
    eName,      \* enu.name of the primitive enum being generated for
    eVariants,  \* enu.variants(), the variant names in declaration order
    eSelf,      \* the wire integer `self` handed to the generated match
    eResult,    \* what the generated match evaluates to
    ePc,        \* "wire" before the generated match has run, "api" after
    hPrefix,    \* `prefix`, the module's unique id
    hText,      \* header text: the rewrite's latest output
    hPrev,      \* the text the latest rewrite was applied to
    hRuns,      \* how many times the rewrite has been applied
    dConfigs,   \* all_configs: one Opts per module, the root module first
    dFuncNames, \* func_names handed to generate_dummy
    dPathIndex, \* c_path_index
    dOut,       \* dOut[k]: the text generate_dummy returned for module k
    rRepo,      \* what DartRepository::from_str(dart_root) yields
    rSkip,      \* skip_deps_check
    rPc,        \* where ensure_tools_available stands
    rChecks,    \* the package checks made so far, in order
    rResult,    \* what ensure_tools_available returned
    bPrefix,    \* arg.prefix
    bCrateOk,   \* rust_crate_dir can be canonicalized
    bDartRepo,  \* DartRepository::from_str(dart_root) succeeds
    bExtract,   \* what cbindgen::generate_with_config yields for the crate
    bOld,       \* the file at c_output_path when the run starts
    bFile,      \* the file at c_output_path now
    bGenerated, \* the local `generated` of cbindgen
    bCalls,     \* the external tools invoked so far, in order
    bRes,       \* the Output of the ffigen process, once it has run
    bPc,        \* where bindgen_rust_to_dart stands
    bResult     \* what bindgen_rust_to_dart returned

timeVars == <<tIr, tTarget, tSelf, tS, tNs, tApi, tPc>>
enumVars == <<eName, eVariants, eSelf, eResult, ePc>>

hdrVars == <<hPrefix, hText, hPrev, hRuns>>

dummyVars == <<dConfigs, dFuncNames, dPathIndex, dOut>>

toolVars == <<rRepo, rSkip, rPc, rChecks, rResult>>

bindVars == <<bPrefix, bCrateOk, bDartRepo, bExtract, bOld, bFile, bGenerated,
              bCalls, bRes, bPc, bResult>>

vars == <<timeVars, enumVars, hdrVars, dummyVars, toolVars, bindVars>>

\* Each specification below exercises one part of the generator; the
\* variables of the other parts rest at these values.
TimeIdle ==
    /\ tIr = "Naive"
    /\ tTarget = "io"
    /\ tSelf = 0
    /\ tS = 0
    /\ tNs = 0
    /\ tApi = [none |-> TRUE]
    /\ tPc = "idle"

EnumIdle ==
    /\ eName = ""
    /\ eVariants = <<>>
    /\ eSelf = 0
    /\ eResult = ""
    /\ ePc = "idle"

HdrIdle ==
    /\ hPrefix = ""
    /\ hText = ""
    /\ hPrev = ""
    /\ hRuns = 0

DummyIdle ==
    /\ dConfigs = <<>>
    /\ dFuncNames = <<>>
    /\ dPathIndex = 0
    /\ dOut = <<>>

ToolIdle ==
    /\ rRepo = [none |-> TRUE]
    /\ rSkip = FALSE
    /\ rPc = "idle"
    /\ rChecks = <<>>
    /\ rResult = [none |-> TRUE]

BindIdle ==
    /\ bPrefix = ""
    /\ bCrateOk = TRUE
    /\ bDartRepo = TRUE
    /\ bExtract = [none |-> TRUE]
    /\ bOld = [none |-> TRUE]
    /\ bFile = [none |-> TRUE]
    /\ bGenerated = ""
    /\ bCalls = <<>>
    /\ bRes = [none |-> TRUE]
    /\ bPc = "idle"
    /\ bResult = [none |-> TRUE]

TimeOthers == <<enumVars, hdrVars, dummyVars, toolVars, bindVars>>
EnumOthers == <<timeVars, hdrVars, dummyVars, toolVars, bindVars>>
HdrOthers == <<timeVars, enumVars, dummyVars, toolVars, bindVars>>
DummyOthers == <<timeVars, enumVars, hdrVars, toolVars, bindVars>>
ToolOthers == <<timeVars, enumVars, hdrVars, dummyVars, bindVars>>
BindOthers == <<timeVars, enumVars, hdrVars, dummyVars, toolVars>>

(***************************************************************************)
(* 64-bit integers.  TLC's integers are 32 bits wide, so an i64 is a sign  *)
(* and MaxLimbs limbs in base 1000, least significant first; every value   *)
(* the model builds stays far inside the i64 range, so no operation of the *)
(* generated body can overflow.                                            *)
(***************************************************************************)
MaxLimbs == 4

LimbBase == 10 ^ 3

LowLimbs == {0, 1, 123, 567, 999}
MidLimbs == {0, 496, 999}
HighLimbs == {0, 3}

IsZeroMag(mag) == \A i \in 1..Len(mag) : mag[i] = 0

ZeroMag == [i \in 1..MaxLimbs |-> 0]

I64(neg, mag) == [neg |-> neg /\ ~IsZeroMag(mag), mag |-> mag]

\* A small non-negative TLC integer as an i64.
I64OfNat(n) ==
    I64(FALSE, [i \in 1..MaxLimbs |->
        IF i = 1 THEN n % LimbBase
        ELSE IF i = 2 THEN (n \div LimbBase) % LimbBase
        ELSE IF i = 3 THEN (n \div (LimbBase * LimbBase)) % LimbBase
        ELSE 0])

\* Schoolbook long division of a magnitude by d (0 < d <= 10^6), from the
\* most significant limb down.  Returns the quotient limbs and the remainder.
RECURSIVE LongDiv(_, _, _, _, _)
LongDiv(mag, d, i, rem, q) ==
    IF i = 0 THEN [q |-> q, r |-> rem]
    ELSE LET cur == rem * LimbBase + mag[i]
         IN  LongDiv(mag, d, i - 1, cur % d, [q EXCEPT ![i] = cur \div d])

\* i64 `/`: the quotient rounded toward zero.
I64Div(x, d) ==
    I64(x.neg, LongDiv(x.mag, d, Len(x.mag), 0, x.mag).q)

\* i64 `%`: the remainder has the sign of the dividend.
I64Rem(x, d) ==
    LET r == LongDiv(x.mag, d, Len(x.mag), 0, x.mag).r
    IN  IF x.neg THEN 0 - r ELSE r

\* i64 `%` in the place of rem_euclid.
I64RemEuclidTruncating(x, d) == I64Rem(x, d)

\* i64::rem_euclid: `let r = self % rhs; if r < 0 { r + rhs.abs() } else { r }`
I64RemEuclid(x, d) ==
    LET r == I64Rem(x, d)
    IN  IF r < 0 THEN r + d ELSE r

(***************************************************************************)
(* wire2api_body, IrTypeDelegate::Time.                                    *)
(***************************************************************************)
UNIT_IO == 1000000
UNIT_WASM == 1000
SCALE_IO == 1000
SCALE_WASM == 1000000

\* codegen_io:   let s = (self / 1_000_000) as i64;
\*               let ns = (self.rem_euclid(1_000_000) * 1_000) as u32;
\* The product lies in [0, 10^9), so the cast to u32 keeps its value.
CodegenIoSWrongUnit(self) == I64Div(self, UNIT_WASM)

CodegenIoS(self) == I64Div(self, UNIT_IO)
CodegenIoNs(self) == I64RemEuclid(self, UNIT_IO) * SCALE_IO

\* codegen_wasm: let s = (self / 1_000) as i64;
\*               let ns = (self.rem_euclid(1_000) * 1_000_000) as u32;
CodegenWasmS(self) == I64Div(self, UNIT_WASM)
CodegenWasmNs(self) == I64RemEuclid(self, UNIT_WASM) * SCALE_WASM

WireTimes ==
    { I64(neg, <<l1, l2, l3>> \o hi) :
        neg \in BOOLEAN, l1 \in LowLimbs, l2 \in LowLimbs,
        l3 \in MidLimbs, hi \in [1..(MaxLimbs - 3) -> HighLimbs] }

\* codegen_naive, codegen_utc, codegen_local: the value built from s and ns.
CodegenConversion(ir, s, ns) ==
    [type |-> IF ir = "Naive" THEN "chrono::NaiveDateTime"
              ELSE IF ir = "Utc" THEN "chrono::DateTime<chrono::Utc>"
              ELSE "chrono::DateTime<chrono::Local>",
     secs |-> s, nsecs |-> ns]

\* io: chrono::Duration::microseconds(self); wasm: ..::milliseconds(self)
CodegenDuration(target, self) ==
    [type |-> "chrono::Duration",
     unit |-> IF target = "io" THEN "microseconds" ELSE "milliseconds",
     count |-> self]

InitTime ==
    /\ tIr \in {"Naive", "Utc", "Local", "Duration"}
    /\ tTarget \in {"io", "wasm"}
    /\ tSelf \in WireTimes
    /\ tS = I64(FALSE, ZeroMag)
    /\ tNs = 0
    /\ tApi = [none |-> TRUE]
    /\ tPc = "wire"
    /\ EnumIdle
    /\ HdrIdle
    /\ DummyIdle
    /\ ToolIdle
    /\ BindIdle

\* The body emitted into the `io` slot of the Acc, executed on `self`; for
\* IrTypeTime::Duration the body is the early-returned Acc.
Wire2ApiTimeIo ==
    /\ tPc = "wire"
    /\ tTarget = "io"
    /\ IF tIr = "Duration"
       THEN /\ tApi' = CodegenDuration("io", tSelf)
            /\ UNCHANGED <<tS, tNs>>
       ELSE /\ tS' = CodegenIoS(tSelf)
            /\ tNs' = CodegenIoNs(tSelf)
            /\ tApi' = CodegenConversion(tIr, CodegenIoS(tSelf), CodegenIoNs(tSelf))
    /\ tPc' = "api"
    /\ UNCHANGED <<tIr, tTarget, tSelf>>
    /\ UNCHANGED TimeOthers

\* The body emitted into the `wasm` slot of the Acc, executed on `self`; for
\* IrTypeTime::Duration the body is the early-returned Acc.
Wire2ApiTimeWasm ==
    /\ tPc = "wire"
    /\ tTarget = "wasm"
    /\ IF tIr = "Duration"
       THEN /\ tApi' = CodegenDuration("wasm", tSelf)
            /\ UNCHANGED <<tS, tNs>>
       ELSE /\ tS' = CodegenWasmS(tSelf)
            /\ tNs' = CodegenWasmNs(tSelf)
            /\ tApi' = CodegenConversion(tIr, CodegenWasmS(tSelf),
                                         CodegenWasmNs(tSelf))
    /\ tPc' = "api"
    /\ UNCHANGED <<tIr, tTarget, tSelf>>
    /\ UNCHANGED TimeOthers

NextTime == Wire2ApiTimeIo \/ Wire2ApiTimeWasm

SpecTime == InitTime /\ [][NextTime]_vars

(***************************************************************************)
(* Re-encoding a decoded (seconds, nanoseconds) pair as a wire integer:    *)
(* seconds * U + nanoseconds / (10^9 / U), computed on limbs.              *)
(***************************************************************************)
NANOS_PER_SEC == 10 ^ 9

\* mag * m for 0 <= m <= 10^6, by carry propagation from limb i upward.
RECURSIVE MulSmallMag(_, _, _, _)
MulSmallMag(mag, m, i, carry) ==
    IF i > Len(mag) THEN mag
    ELSE LET cur == mag[i] * m + carry
         IN  MulSmallMag([mag EXCEPT ![i] = cur % LimbBase], m, i + 1,
                         cur \div LimbBase)

\* mag + a for a >= 0.
RECURSIVE AddSmallMag(_, _, _)
AddSmallMag(mag, i, carry) ==
    IF i > Len(mag) THEN mag
    ELSE LET cur == mag[i] + carry
         IN  AddSmallMag([mag EXCEPT ![i] = cur % LimbBase], i + 1,
                         cur \div LimbBase)

\* mag - a for 0 <= a <= mag.
RECURSIVE SubSmallMag(_, _, _)
SubSmallMag(mag, i, borrow) ==
    IF i > Len(mag) THEN mag
    ELSE LET cur == mag[i] - borrow
         IN  SubSmallMag([mag EXCEPT ![i] = cur % LimbBase], i + 1,
                         0 - (cur \div LimbBase))

\* The magnitude is below 10^6 (it fits two limbs).
FitsTwoLimbs(mag) == \A i \in 3..Len(mag) : mag[i] = 0

TwoLimbValue(mag) == mag[1] + LimbBase * mag[2]

\* x + a for an i64 x and 0 <= a < 10^6.
I64AddSmall(x, a) ==
    IF ~x.neg THEN I64(FALSE, AddSmallMag(x.mag, 1, a))
    ELSE IF FitsTwoLimbs(x.mag) /\ TwoLimbValue(x.mag) < a
         THEN I64OfNat(a - TwoLimbValue(x.mag))
         ELSE I64(TRUE, SubSmallMag(x.mag, 1, a))

I64MulSmall(x, m) == I64(x.neg, MulSmallMag(x.mag, m, 1, 0))

UnitOf(target) == IF target = "io" THEN UNIT_IO ELSE UNIT_WASM

Reencode(s, ns, unit) ==
    I64AddSmall(I64MulSmall(s, unit), ns \div (NANOS_PER_SEC \div unit))

\* 3_496_567_123, the input of tests::io_wire2api.
TestInputIo == I64(FALSE, [i \in 1..MaxLimbs |->
    IF i = 1 THEN 123 ELSE IF i = 2 THEN 567 ELSE IF i = 3 THEN 496
    ELSE IF i = 4 THEN 3 ELSE 0])

(***************************************************************************)
(* C1: for every non-negative wire time v, on both targets, the decode of  *)
(* a Naive, Utc or Local time (the types decoded through s and ns)         *)
(* yields seconds = v / U and nanoseconds = (v mod U) * (10^9 / U): the    *)
(* seconds are non-negative, the nanoseconds are a whole number of units   *)
(* below one second, and seconds * U + nanoseconds / (10^9 / U) is v       *)
(* again; on the native target 3_496_567_123 decodes to 3496 s and         *)
(* 567_123_000 ns.                                                         *)
(***************************************************************************)
C1_NonNegRoundTrip ==
    (tPc = "api" /\ tIr # "Duration" /\ ~tSelf.neg) =>
        /\ tApi.secs = tS
        /\ tApi.nsecs = tNs
        /\ ~tS.neg
        /\ tNs >= 0
        /\ tNs < NANOS_PER_SEC
        /\ tNs % (NANOS_PER_SEC \div UnitOf(tTarget)) = 0
        /\ Reencode(tS, tNs, UnitOf(tTarget)) = tSelf
        /\ (tTarget = "io" /\ tSelf = TestInputIo) =>
               /\ tS = I64OfNat(3496)
               /\ tNs = 567123000

C1_Witness ==
    /\ tPc = "api"
    /\ tIr = "Utc"
    /\ tTarget = "io"
    /\ tSelf = TestInputIo
    /\ tNs = 567123000

(***************************************************************************)
(* C2: for every wire time v, negative ones included, on both targets the  *)
(* sub-second remainder is non-negative, so the decoded nanoseconds lie in *)
(* [0, 10^9).                                                              *)
(***************************************************************************)
C2_NanosInRange ==
    (tPc = "api" /\ tIr # "Duration") =>
        /\ tApi.nsecs = tNs
        /\ tNs >= 0
        /\ tNs < NANOS_PER_SEC

C2_Witness ==
    /\ tPc = "api"
    /\ tIr = "Local"
    /\ tSelf.neg
    /\ tNs > 0

(***************************************************************************)
(* C3: for every negative wire time v, on both targets, the decoded pair   *)
(* denotes the instant v: seconds * U + nanoseconds / (10^9 / U) = v.      *)
(***************************************************************************)
C3_NegativeRoundTrip ==
    (tPc = "api" /\ tIr # "Duration" /\ tSelf.neg) =>
        Reencode(tApi.secs, tApi.nsecs, UnitOf(tTarget)) = tSelf

(***************************************************************************)
(* wire2api_body, IrTypeDelegate::PrimitiveEnum.  The emitted body is      *)
(*     match self { 0 => E::V0, 1 => E::V1, ..., _ => unreachable!(...) }  *)
(* held here as its list of arms; MatchSelf gives it Rust's meaning: the   *)
(* first arm whose pattern equals `self`, else the wildcard arm, which     *)
(* panics.                                                                 *)
(***************************************************************************)
MaxVariants == 3

VariantNames == {"Red", "Green", "Blue", "Alpha"}

EnumDecls ==
    UNION { { vs \in [1..n -> VariantNames] :
                \A i, j \in 1..n : i # j => vs[i] # vs[j] } : n \in 0..MaxVariants }

\* .enumerate() counting from one instead of zero.
VariantArmsFromOne(name, variants) ==
    [k \in 1..Len(variants) |->
        [pat |-> k, path |-> <<name, variants[k]>>]]

\* variants.iter().enumerate().map(|(idx, variant)| "{idx} => {enu.name}::{variant.name},")
VariantArms(name, variants) ==
    [k \in 1..Len(variants) |->
        [pat |-> k - 1, path |-> <<name, variants[k]>>]]

\* `_ => unreachable!("Invalid variant for {enu.name}: {}", self)`
Unreachable(name, self) == [panic |-> "unreachable", enum |-> name, value |-> self]

MatchSelf(name, arms, self) ==
    IF \E k \in 1..Len(arms) : arms[k].pat = self
    THEN LET first == CHOOSE k \in 1..Len(arms) :
                 /\ arms[k].pat = self
                 /\ \A j \in 1..(k - 1) : arms[j].pat # self
         IN  [value |-> arms[first].path]
    ELSE Unreachable(name, self)

InitEnum ==
    /\ eName = "Color"
    /\ eVariants \in EnumDecls
    /\ eSelf \in (0 - 2)..(MaxVariants + 1)
    /\ eResult = ""
    /\ ePc = "wire"
    /\ TimeIdle
    /\ HdrIdle
    /\ DummyIdle
    /\ ToolIdle
    /\ BindIdle

\* The generated match, executed on a wire value inside the declared range.
Wire2ApiEnumVariant ==
    /\ ePc = "wire"
    /\ \E k \in 1..Len(VariantArms(eName, eVariants)) :
           VariantArms(eName, eVariants)[k].pat = eSelf
    /\ eResult' = MatchSelf(eName, VariantArms(eName, eVariants), eSelf)
    /\ ePc' = "api"
    /\ UNCHANGED <<eName, eVariants, eSelf>>
    /\ UNCHANGED EnumOthers

\* The generated match, falling through to the wildcard arm: the thread
\* panics.
Wire2ApiEnumPanic ==
    /\ ePc = "wire"
    /\ \A k \in 1..Len(VariantArms(eName, eVariants)) :
           VariantArms(eName, eVariants)[k].pat # eSelf
    /\ eResult' = MatchSelf(eName, VariantArms(eName, eVariants), eSelf)
    /\ ePc' = "panicked"
    /\ UNCHANGED <<eName, eVariants, eSelf>>
    /\ UNCHANGED EnumOthers

NextEnum == Wire2ApiEnumVariant \/ Wire2ApiEnumPanic

SpecEnum == InitEnum /\ [][NextEnum]_vars

(***************************************************************************)
(* C4: for a primitive enum with N variants the generated decode maps each *)
(* wire value i in 0..N-1 to the i-th declared variant, and every integer  *)
(* outside [0, N) reaches the unreachable arm: it is mapped to no variant. *)
(***************************************************************************)
C4_EnumDecode ==
    (ePc \in {"api", "panicked"}) =>
        IF eSelf >= 0 /\ eSelf < Len(eVariants)
        THEN /\ ePc = "api"
             /\ eResult = [value |-> <<eName, eVariants[eSelf + 1]>>]
        ELSE /\ ePc = "panicked"
             /\ eResult = Unreachable(eName, eSelf)

C4_Witness ==
    /\ ePc = "panicked"
    /\ Len(eVariants) = 2
    /\ eSelf = 2

(***************************************************************************)
(* cbindgen: the symbol-prefix rewrite of the extracted header.            *)
(*   Regex::new(r"([\d\w]+ \*?)([\d\w]+)(\([\d\w\s*,]*\);)")               *)
(*   regex.replace_all(&generated, "${1}{prefix}${2}${3}")                 *)
(***************************************************************************)
WordChars ==                                     \* [\d\w]
    {"a", "b", "c", "d", "e", "f", "g", "h", "i", "j", "k", "l", "m", "n", "o",
     "p", "q", "r", "s", "t", "u", "v", "w", "x", "y", "z", "A", "B", "C", "D",
     "P", "Q", "T", "0", "1", "2", "3", "4", "5", "6", "7", "8", "9", "_"}
SpaceChars == {" ", "\n"}                        \* \s
ArgChars == WordChars \cup SpaceChars \cup {"*", ","}   \* [\d\w\s*,]

\* The character at position p of the text t.
At(t, p) == IF p >= 1 /\ p <= Len(t) THEN SubSeq(t, p, p) ELSE "EOF"

\* The end (exclusive) of the longest run of characters of class cls
\* starting at position p: what a greedy `cls*` consumes.
RECURSIVE RunEnd(_, _, _)
RunEnd(t, p, cls) ==
    IF At(t, p) \in cls THEN RunEnd(t, p + 1, cls) ELSE p

\* The match of the pattern that starts at position p, if there is one.
\* Each repetition is followed by a character outside its class, so the
\* greedy choice is the only one that can succeed.
MatchAt(t, p) ==
    LET a == RunEnd(t, p, WordChars)            \* group 1: [\d\w]+
        c == IF At(t, a + 1) = "*" THEN a + 2 ELSE a + 1    \* " \*?"
        d == RunEnd(t, c, WordChars)            \* group 2: [\d\w]+
        e == RunEnd(t, d + 1, ArgChars)         \* group 3: \( [..]* \) ;
    IN  [ok |-> /\ a > p
                /\ At(t, a) = " "
                /\ d > c
                /\ At(t, d) = "("
                /\ At(t, e) = ")"
                /\ At(t, e + 1) = ";",
         name |-> c, paren |-> d, end |-> e + 2]

Slice(t, from, to) == SubSeq(t, from, to - 1)

\* "${1}{prefix}${2}${3}" for the match m that starts at p.
Replacement(t, p, m, prefix) ==
    Slice(t, p, m.name) \o prefix \o Slice(t, m.name, m.end)

\* Regex::replace, which rewrites the leftmost match only.
RECURSIVE ReplaceFirst(_, _, _)
ReplaceFirst(t, p, prefix) ==
    IF p > Len(t) THEN ""
    ELSE LET m == MatchAt(t, p)
         IN  IF m.ok
             THEN Replacement(t, p, m, prefix) \o Slice(t, m.end, Len(t) + 1)
             ELSE At(t, p) \o ReplaceFirst(t, p + 1, prefix)

\* Regex::replace_all: every non-overlapping match, leftmost first.
RECURSIVE ReplaceAll(_, _, _)
ReplaceAll(t, p, prefix) ==
    IF p > Len(t) THEN ""
    ELSE LET m == MatchAt(t, p)
         IN  IF m.ok
             THEN Replacement(t, p, m, prefix) \o ReplaceAll(t, m.end, prefix)
             ELSE At(t, p) \o ReplaceAll(t, p + 1, prefix)

PrefixRewriteFirstOnly(generated, prefix) == ReplaceFirst(generated, 1, prefix)

\* let prefixed = regex.replace_all(&generated, format!("${{1}}{prefix}${{2}}${{3}}"));
PrefixRewrite(generated, prefix) == ReplaceAll(generated, 1, prefix)

\* format!("// {prefix}\n{}", prefixed.to_string())
PrefixedHeader(generated, prefix) ==
    "// " \o prefix \o "\n" \o PrefixRewrite(generated, prefix)

\* Declarations an extracted header is made of.
DeclPlain == "int32_t f(int32_t a);\n"
DeclPointer == "T *g();\n"
DeclStruct == "struct T *wire_h(void);\n"
DeclField == "T x;\n"
DeclArray == "void k(T a[]);\n"
DeclTwoLines == "void m(T a,\n T *b);\n"

Decls == {DeclPlain, DeclPointer, DeclStruct, DeclField, DeclArray, DeclTwoLines}

MaxDecls == 2
MaxRewrites == 2

RECURSIVE Flatten(_)
Flatten(ds) == IF ds = <<>> THEN "" ELSE Head(ds) \o Flatten(Tail(ds))

Headers == UNION { { Flatten(ds) : ds \in [1..n -> Decls] } : n \in 1..MaxDecls }

Prefixes == {"P7_", "Q_"}

InitPrefix ==
    /\ hPrefix \in Prefixes
    /\ hText \in Headers
    /\ hPrev = ""
    /\ hRuns = 0
    /\ TimeIdle
    /\ EnumIdle
    /\ DummyIdle
    /\ ToolIdle
    /\ BindIdle

ApplyPrefixRewrite ==
    /\ hRuns < MaxRewrites
    /\ hPrev' = hText
    /\ hText' = PrefixRewrite(hText, hPrefix)
    /\ hRuns' = hRuns + 1
    /\ UNCHANGED hPrefix
    /\ UNCHANGED HdrOthers

NextPrefix == ApplyPrefixRewrite

SpecPrefix == InitPrefix /\ [][NextPrefix]_vars

\* The identifiers (group 2) of the matches of the pattern in t, in order.
RECURSIVE MatchedNames(_, _)
MatchedNames(t, p) ==
    IF p > Len(t) THEN <<>>
    ELSE LET m == MatchAt(t, p)
         IN  IF m.ok
             THEN <<Slice(t, m.name, m.paren)>> \o MatchedNames(t, m.end)
             ELSE MatchedNames(t, p + 1)

StartsWith(name, prefix) ==
    /\ Len(name) >= Len(prefix)
    /\ SubSeq(name, 1, Len(prefix)) = prefix

\* How many times in a row the name begins with the prefix.
RECURSIVE LeadCount(_, _)
LeadCount(name, prefix) ==
    IF StartsWith(name, prefix)
    THEN 1 + LeadCount(SubSeq(name, Len(prefix) + 1, Len(name)), prefix)
    ELSE 0

(***************************************************************************)
(* C5 as stated: after the rewrite every matched function signature begins *)
(* with the prefix exactly once, and applying the rewrite again to the     *)
(* already-prefixed text adds no second prefix (the rewrite is idempotent).*)
(***************************************************************************)
C5_Idempotent ==
    /\ hRuns >= 1 =>
          \A j \in 1..Len(MatchedNames(hText, 1)) :
              LeadCount(MatchedNames(hText, 1)[j], hPrefix) = 1
    /\ hRuns >= 2 => hText = hPrev

(***************************************************************************)
(* C5 amended: each application of the rewrite keeps the matched           *)
(* signatures and puts the prefix in front of each matched identifier      *)
(* exactly once more, whatever the identifier began with: a name without   *)
(* the prefix carries it once after one application and twice after two.   *)
(***************************************************************************)
C5_PrefixOncePerRewrite ==
    hRuns >= 1 =>
        LET before == MatchedNames(hPrev, 1)
            after == MatchedNames(hText, 1)
        IN  /\ Len(after) = Len(before)
            /\ \A j \in 1..Len(before) :
                  /\ after[j] = hPrefix \o before[j]
                  /\ LeadCount(after[j], hPrefix) = LeadCount(before[j], hPrefix) + 1
                  /\ LeadCount(before[j], hPrefix) = 0
                        => LeadCount(after[j], hPrefix) = 1

C5_Witness ==
    /\ hRuns = 2
    /\ Len(MatchedNames(hText, 1)) = 2
    /\ \A j \in 1..2 : LeadCount(MatchedNames(hText, 1)[j], hPrefix) = 2

(***************************************************************************)
(* generator/c/mod.rs: generate_dummy, the linkage-anchor generator.       *)
(***************************************************************************)
MaxModules == 2
MaxFuncs == 2

\* Regex::new(r"wire_[\d\w]+").is_match(e): the pattern occurs somewhere in e.
IsWireName(e) ==
    \E p \in 1..(Len(e) - 5) :
        /\ SubSeq(e, p, p + 4) = "wire_"
        /\ At(e, p + 5) \in WordChars

\* .collect::<Vec<_>>().join("\n")
RECURSIVE Join(_)
Join(lines) ==
    IF lines = <<>> THEN ""
    ELSE IF Len(lines) = 1 THEN lines[1]
    ELSE lines[1] \o "\n" \o Join(Tail(lines))

get_dummy_signature(api_block_name) ==
    IF api_block_name = ""
    THEN "dummy_method_to_enforce_bundling"
    ELSE "dummy_method_to_enforce_bundling_" \o api_block_name

\* A get_dummy_var that loses the last name of the list.
get_dummy_var_drop_last(func_names) ==
    Join([i \in 1..(Len(func_names) - 1) |->
            "    dummy_var ^= ((int64_t) (void*) " \o func_names[i] \o ");"])

get_dummy_var(func_names) ==
    Join([i \in 1..Len(func_names) |->
            "    dummy_var ^= ((int64_t) (void*) " \o func_names[i] \o ");"])

get_dummy_func(api_block_name, func_names, prefix) ==
    "static int64_t " \o prefix \o get_dummy_signature(api_block_name)
        \o "(void) {\n"
        \o "    int64_t dummy_var = 0;\n"
        \o get_dummy_var(func_names) \o "\n"
        \o "    return dummy_var;\n"
        \o "}\n"

\* PathExt (utils/misc.rs): a path is held as its directory and file name.
directory_name_str(path) == path.dir
file_name_str(path) == path.file

\* src_p.get_relative_path_to(dst_dir, true): the relative directory that
\* leads from the file src_p to the directory dst_dir.
get_relative_path_to(src_p, dst_dir) ==
    IF directory_name_str(src_p) = dst_dir THEN "." ELSE "../" \o dst_dir

\* format!(r#"#include "{}""#, Path::join(relative_p, header_file_name))
IncludeLine(config, e, c_path_index) ==
    LET src_p == config.c_output_path[c_path_index + 1]
        dst_p == e.c_output_path[c_path_index + 1]
    IN  "#include \"" \o get_relative_path_to(src_p, directory_name_str(dst_p))
            \o "/" \o file_name_str(dst_p) \o "\""

\* func_names.iter().map(|e| if regex.is_match(e) { "{prefix}{e}" } else { e })
PrefixWireNames(func_names, prefix) ==
    [i \in 1..Len(func_names) |->
        IF IsWireName(func_names[i]) THEN prefix \o func_names[i]
        ELSE func_names[i]]

generate_dummy(config, all_configs, func_names, c_path_index) ==
    LET prefix == config.unique_id
        names == PrefixWireNames(func_names, prefix)
    IN  IF Len(all_configs) > 1
        THEN LET basic_dummy_func ==
                     get_dummy_func(config.class_name, names, prefix)
             IN  IF config.block_index = 0
                 THEN LET signatures ==
                              [k \in 1..Len(all_configs) |->
                                  get_dummy_signature(all_configs[k].class_name)]
                          other_headers ==
                              Join([k \in 1..(Len(all_configs) - 1) |->
                                  IncludeLine(config, all_configs[k + 1],
                                              c_path_index)])
                      IN  basic_dummy_func \o "\n" \o other_headers \o "\n"
                              \o get_dummy_func("", signatures, prefix)
                 ELSE basic_dummy_func
        ELSE get_dummy_func("", names, prefix)

Digits == <<"1", "2", "3", "4", "5">>
OutputDirs == <<"ios", "macos">>
UniqueIds == {"P7_", "Q_"}
FuncNamePool == {"wire_add", "wire_sub", "new_box"}

FuncNameLists == UNION { [1..n -> FuncNamePool] : n \in 0..MaxFuncs }

\* The Opts of module k (block index k - 1) with the given unique id; its
\* two C outputs are the same file name in two directories.
OptsOf(k, id) ==
    [class_name |-> "Api" \o Digits[k],
     unique_id |-> id,
     block_index |-> k - 1,
     c_output_path |-> [i \in 1..2 |->
         [dir |-> OutputDirs[i] \o (IF k = 1 THEN "" ELSE "/part"),
          file |-> "bridge_" \o Digits[k] \o ".h"]]]

AllConfigs ==
    UNION { { [k \in 1..m |-> OptsOf(k, ids[k])] : ids \in [1..m -> UniqueIds] } :
              m \in 1..MaxModules }

InitDummy ==
    /\ dConfigs \in AllConfigs
    /\ dFuncNames \in FuncNameLists
    /\ dPathIndex \in {0, 1}
    /\ dOut = [k \in 1..Len(dConfigs) |-> "none"]
    /\ TimeIdle
    /\ EnumIdle
    /\ HdrIdle
    /\ ToolIdle
    /\ BindIdle

\* generate_dummy for the only module of a single-module run.
GenerateDummySingle ==
    /\ Len(dConfigs) = 1
    /\ dOut[1] = "none"
    /\ dOut' = [dOut EXCEPT ![1] =
                   generate_dummy(dConfigs[1], dConfigs, dFuncNames, dPathIndex)]
    /\ UNCHANGED <<dConfigs, dFuncNames, dPathIndex>>
    /\ UNCHANGED DummyOthers

\* generate_dummy for the root module (block index 0) of a multi-module run.
GenerateDummyRoot ==
    /\ Len(dConfigs) > 1
    /\ dOut[1] = "none"
    /\ dOut' = [dOut EXCEPT ![1] =
                   generate_dummy(dConfigs[1], dConfigs, dFuncNames, dPathIndex)]
    /\ UNCHANGED <<dConfigs, dFuncNames, dPathIndex>>
    /\ UNCHANGED DummyOthers

\* generate_dummy for another module of a multi-module run.
GenerateDummyOther ==
    /\ \E k \in 2..Len(dConfigs) :
          /\ dOut[k] = "none"
          /\ dOut' = [dOut EXCEPT ![k] =
                   generate_dummy(dConfigs[k], dConfigs, dFuncNames, dPathIndex)]
    /\ UNCHANGED <<dConfigs, dFuncNames, dPathIndex>>
    /\ UNCHANGED DummyOthers

NextDummy == GenerateDummySingle \/ GenerateDummyRoot \/ GenerateDummyOther

SpecDummy == InitDummy /\ [][NextDummy]_vars

\* Reading emitted C text back.
Occurrences(t, sub) ==
    { p \in 1..(Len(t) - Len(sub) + 1) : SubSeq(t, p, p + Len(sub) - 1) = sub }

Contains(t, sub) == Occurrences(t, sub) # {}

\* The text between position from and the next occurrence of stop.
TextUntil(t, from, stop) ==
    LET q == CHOOSE q \in Occurrences(t, stop) :
                 /\ q >= from
                 /\ \A r \in Occurrences(t, stop) : r >= from => q <= r
    IN  SubSeq(t, from, q - 1)

\* The functions the text defines: `static int64_t NAME(void) {`.
DefinedAt(t) == Occurrences(t, "static int64_t ")
DefinedName(t, p) == TextUntil(t, p + Len("static int64_t "), "(void) {")
DefinedNames(t) == { DefinedName(t, p) : p \in DefinedAt(t) }

\* The symbols whose address the text takes from position from on:
\* `(void*) NAME);`.
ReferencedNames(t, from) ==
    { TextUntil(t, p + Len("(void*) "), ");") :
        p \in { q \in Occurrences(t, "(void*) ") : q >= from } }

\* In the root module's text the per-module anchor is defined first and the
\* umbrella anchor last.
FirstDefinition(t) == CHOOSE p \in DefinedAt(t) : \A q \in DefinedAt(t) : p <= q
LastDefinition(t) == CHOOSE p \in DefinedAt(t) : \A q \in DefinedAt(t) : q <= p

PerModuleAnchorName(t) == DefinedName(t, FirstDefinition(t))
UmbrellaReferences(t) == ReferencedNames(t, LastDefinition(t))

RemoveAt(seq, i) == SubSeq(seq, 1, i - 1) \o SubSeq(seq, i + 1, Len(seq))

RootGenerated == Len(dConfigs) > 1 /\ dOut[1] # "none"

(***************************************************************************)
(* C6: with M > 1 modules the root module's output references the          *)
(* per-module anchor signature of each of the M-1 other modules and has    *)
(* one #include per other module; every name of func_names is referenced   *)
(* and removing any one name from func_names changes the emitted text.     *)
(***************************************************************************)
C6_RootAnchorsAll ==
    RootGenerated =>
        /\ \A k \in 2..Len(dConfigs) :
              /\ get_dummy_signature(dConfigs[k].class_name)
                    \in UmbrellaReferences(dOut[1])
              /\ Cardinality(Occurrences(dOut[1],
                    "/" \o dConfigs[k].c_output_path[dPathIndex + 1].file
                        \o "\"\n")) = 1
        /\ Cardinality(Occurrences(dOut[1], "#include \"")) = Len(dConfigs) - 1
        /\ \A i \in 1..Len(dFuncNames) :
              /\ \E n \in ReferencedNames(dOut[1], 1) :
                    n \in {dFuncNames[i], dConfigs[1].unique_id \o dFuncNames[i]}
              /\ generate_dummy(dConfigs[1], dConfigs, RemoveAt(dFuncNames, i),
                                dPathIndex) # dOut[1]

C6_Witness ==
    /\ RootGenerated
    /\ Len(dFuncNames) = 2
    /\ dFuncNames[1] # dFuncNames[2]

(***************************************************************************)
(* C7: in a multi-module run the root's umbrella anchor references every   *)
(* module's per-module anchor function by exactly the name under which     *)
(* generate_dummy defines it in that module's output, unique-id prefix     *)
(* included.                                                               *)
(***************************************************************************)
C7_UmbrellaNamesDefined ==
    (RootGenerated /\ \A k \in 1..Len(dConfigs) : dOut[k] # "none") =>
        \A k \in 1..Len(dConfigs) :
            PerModuleAnchorName(dOut[k]) \in UmbrellaReferences(dOut[1])

(***************************************************************************)
(* commands.rs: ensure_tools_available.                                    *)
(***************************************************************************)
\* VersionReq::parse(">= 2.0.1, < 3.0.0") and (">= 6.0.1, < 8.0.0")
FFI_REQUIREMENT == [from |-> <<2, 0, 1>>, below |-> <<3, 0, 0>>]
FFIGEN_REQUIREMENT == [from |-> <<6, 0, 1>>, below |-> <<8, 0, 0>>]

\* Versions are <<major, minor, patch>>, ordered as semver orders them.
VersionLess(a, b) ==
    \/ a[1] < b[1]
    \/ a[1] = b[1] /\ a[2] < b[2]
    \/ a[1] = b[1] /\ a[2] = b[2] /\ a[3] < b[3]

\* VersionReq::matches for a requirement ">= from, < below".
Matches(requirement, version) ==
    /\ ~VersionLess(version, requirement.from)
    /\ VersionLess(version, requirement.below)

\* A package the manifest or the lock file does not hold.
Absent == <<>>

\* DartRepository::toolchain_available (utils/dart_repository).
toolchain_available(repo) == repo.toolchain_available

\* DartRepository::has_specified: the manifest declares the package, in the
\* dependency section `mode`, with a version the requirement accepts.
has_specified(repo, package, mode, requirement) ==
    /\ repo.specified[package] # Absent
    /\ Matches(requirement, repo.specified[package])

\* DartRepository::has_installed: the lock file holds the package with a
\* version the requirement accepts.
has_installed(repo, package, mode, requirement) ==
    /\ repo.installed[package] # Absent
    /\ Matches(requirement, repo.installed[package])

FfiVersions == {Absent, <<2, 0, 0>>, <<2, 0, 1>>, <<3, 0, 0>>}
FfigenVersions == {Absent, <<6, 0, 0>>, <<7, 9, 9>>, <<8, 0, 0>>}

Repositories ==
    { [toolchain_available |-> t,
       specified |-> [ffi |-> fs, ffigen |-> gs],
       installed |-> [ffi |-> fi, ffigen |-> gi]] :
        t \in BOOLEAN, fs \in FfiVersions, fi \in FfiVersions,
        gs \in FfigenVersions, gi \in FfigenVersions }

\* from_str fails: the lock file of dart_root cannot be read or parsed.
Unreadable == [unreadable |-> TRUE]

InitTools ==
    /\ rRepo \in Repositories \cup {Unreadable}
    /\ rSkip \in BOOLEAN
    /\ rPc = "from_str"
    /\ rChecks = <<>>
    /\ rResult = [none |-> TRUE]
    /\ TimeIdle
    /\ EnumIdle
    /\ HdrIdle
    /\ DummyIdle
    /\ BindIdle

\* let repo = DartRepository::from_str(dart_root).map_err(StringError)?;
ToolsFromStr ==
    /\ rPc = "from_str"
    /\ IF rRepo = Unreadable
       THEN rPc' = "done" /\ rResult' = [err |-> "StringError"]
       ELSE rPc' = "toolchain" /\ UNCHANGED rResult
    /\ UNCHANGED <<rRepo, rSkip, rChecks>>
    /\ UNCHANGED ToolOthers

\* if !repo.toolchain_available() { return Err(Error::MissingExe(..)); }
\* if !skip_deps_check { .. }  Ok(())
ToolsToolchain ==
    /\ rPc = "toolchain"
    /\ IF ~toolchain_available(rRepo)
       THEN rPc' = "done" /\ rResult' = [err |-> "MissingExe"]
       ELSE IF rSkip
            THEN rPc' = "done" /\ rResult' = [ok |-> TRUE]
            ELSE rPc' = "ffi_specified" /\ UNCHANGED rResult
    /\ UNCHANGED <<rRepo, rSkip, rChecks>>
    /\ UNCHANGED ToolOthers

\* One `repo.has_..(package, mode, requirement)?;` line: on failure the
\* error is returned, otherwise the function goes on to `next`.
PackageCheck(here, call, passed, next) ==
    /\ rPc = here
    /\ rChecks' = Append(rChecks, call)
    /\ IF passed
       THEN /\ rPc' = next
            /\ rResult' = IF next = "done" THEN [ok |-> TRUE] ELSE rResult
       ELSE /\ rPc' = "done"
            /\ rResult' = [err |-> "Dependency", failed |-> call]
    /\ UNCHANGED <<rRepo, rSkip>>
    /\ UNCHANGED ToolOthers

ToolsFfiSpecified ==
    PackageCheck("ffi_specified", <<"has_specified", "ffi">>,
                 has_specified(rRepo, "ffi", "Main", FFI_REQUIREMENT),
                 "ffi_installed")

ToolsFfiInstalled ==
    PackageCheck("ffi_installed", <<"has_installed", "ffi">>,
                 has_installed(rRepo, "ffi", "Main", FFI_REQUIREMENT),
                 "ffigen_specified")

ToolsFfigenSpecified ==
    PackageCheck("ffigen_specified", <<"has_specified", "ffigen">>,
                 has_specified(rRepo, "ffigen", "Dev", FFIGEN_REQUIREMENT),
                 "ffigen_installed")

\* has_specified called a second time in the place of has_installed.
FfigenInstalledNotChecked ==
    has_specified(rRepo, "ffigen", "Dev", FFIGEN_REQUIREMENT)

FfigenInstalled ==
    has_installed(rRepo, "ffigen", "Dev", FFIGEN_REQUIREMENT)

ToolsFfigenInstalled ==
    PackageCheck("ffigen_installed", <<"has_installed", "ffigen">>,
                 FfigenInstalled, "done")

NextTools ==
    \/ ToolsFromStr
    \/ ToolsToolchain
    \/ ToolsFfiSpecified
    \/ ToolsFfiInstalled
    \/ ToolsFfigenSpecified
    \/ ToolsFfigenInstalled

SpecTools == InitTools /\ [][NextTools]_vars

InRange(version, from, below) ==
    /\ version # Absent
    /\ ~VersionLess(version, from)
    /\ VersionLess(version, below)

(***************************************************************************)
(* C9: ensure_tools_available returns Ok only if the toolchain is          *)
(* available and, unless skip_deps_check is set, ffi is declared and       *)
(* installed with a version in [2.0.1, 3.0.0) and ffigen is declared and   *)
(* installed with a version in [6.0.1, 8.0.0); an unavailable toolchain    *)
(* yields MissingExe before any package check; with skip_deps_check set    *)
(* no package check is made.                                               *)
(***************************************************************************)
C9_ToolsAvailable ==
    /\ (rPc = "done" /\ rResult = [ok |-> TRUE]) =>
          /\ rRepo # Unreadable
          /\ rRepo.toolchain_available
          /\ ~rSkip =>
                /\ InRange(rRepo.specified.ffi, <<2, 0, 1>>, <<3, 0, 0>>)
                /\ InRange(rRepo.installed.ffi, <<2, 0, 1>>, <<3, 0, 0>>)
                /\ InRange(rRepo.specified.ffigen, <<6, 0, 1>>, <<8, 0, 0>>)
                /\ InRange(rRepo.installed.ffigen, <<6, 0, 1>>, <<8, 0, 0>>)
    /\ (rPc = "done" /\ rRepo # Unreadable /\ ~rRepo.toolchain_available) =>
          /\ rResult = [err |-> "MissingExe"]
          /\ rChecks = <<>>
    /\ (rPc \notin {"idle", "from_str"} /\ rSkip) => rChecks = <<>>

C9_Witness ==
    /\ rPc = "done"
    /\ rResult = [ok |-> TRUE]
    /\ ~rSkip
    /\ Len(rChecks) = 4

(***************************************************************************)
(* commands.rs: bindgen_rust_to_dart = cbindgen(..)?; ffigen(..)           *)
(***************************************************************************)
NoFile == [exists |-> FALSE, text |-> ""]
File(text) == [exists |-> TRUE, text |-> text]

Ok == [ok |-> TRUE]
NoRes == [none |-> TRUE]

\* let pat = "Couldn't find dynamic library in default locations.";
Pat == "Couldn't find dynamic library in default locations."

\* The classification that looks for `pat` in stderr only.
FfigenClassifyStderrOnly(res) ==
    IF ~res.success
    THEN IF Contains(res.stderr, Pat)
         THEN [err |-> "FfigenLlvm"]
         ELSE [err |-> "StringError",
               msg |-> "ffigen failed:\nstderr: " \o res.stderr
                          \o "\nstdout: " \o res.stdout]
    ELSE Ok

\* ffigen, from `if !res.status.success()` to its end.  The streams of the
\* model are valid UTF-8, which from_utf8_lossy hands back unchanged.
FfigenClassify(res) ==
    IF ~res.success
    THEN IF Contains(res.stderr, Pat) \/ Contains(res.stdout, Pat)
         THEN [err |-> "FfigenLlvm"]
         ELSE [err |-> "StringError",
               msg |-> "ffigen failed:\nstderr: " \o res.stderr
                          \o "\nstdout: " \o res.stdout]
    ELSE Ok

Streams ==
    {"", "clang: error: no such file\n",
     "Couldn't find dynamic library in default locations.",
     "SEVERE: Couldn't find dynamic library in default locations.\nhint: llvm"}

ProcessOutputs ==
    { [success |-> ok, stderr |-> e, stdout |-> o] :
        ok \in BOOLEAN, e \in Streams, o \in Streams }

ExtractedHeaders == {DeclPlain \o DeclField, DeclStruct}

Init ==
    /\ bPrefix \in Prefixes
    /\ bCrateOk \in BOOLEAN
    /\ bDartRepo \in BOOLEAN
    /\ bExtract \in {[ok |-> FALSE, text |-> ""]}
                      \cup { [ok |-> TRUE, text |-> h] : h \in ExtractedHeaders }
    /\ bOld \in {NoFile} \cup { File(h) : h \in ExtractedHeaders }
                  \cup { File(PrefixedHeader(h, bPrefix)) : h \in ExtractedHeaders }
    /\ bFile = bOld
    /\ bGenerated = ""
    /\ bCalls = <<>>
    /\ bRes = NoRes
    /\ bPc = "cbindgen"
    /\ bResult = [none |-> TRUE]
    /\ TimeIdle
    /\ EnumIdle
    /\ HdrIdle
    /\ DummyIdle
    /\ ToolIdle

Return(result) ==
    /\ bPc' = "done"
    /\ bResult' = result

\* bindgen_rust_to_dart with the `?` on cbindgen(..) lost: a failed
\* extraction is dropped and ffigen(..) runs all the same.
CbindgenGenerateErrorDropped ==
    /\ bPc = "cbindgen"
    /\ IF ~bCrateOk
       THEN /\ bPc' = "panicked"
            /\ UNCHANGED <<bResult, bCalls>>
       ELSE /\ bCalls' = Append(bCalls, "cbindgen")
            /\ bPc' = IF bExtract.ok THEN "write_to_file" ELSE "ffigen"
            /\ UNCHANGED bResult
    /\ UNCHANGED <<bPrefix, bCrateOk, bDartRepo, bExtract, bOld, bFile,
                   bGenerated, bRes>>
    /\ UNCHANGED BindOthers

\* cbindgen, up to `cbindgen::generate_with_config(path, config)?`:
\* canonicalize(..).expect(..) panics on a crate directory that cannot be
\* resolved; a failed extraction is returned.
CbindgenGenerate ==
    /\ bPc = "cbindgen"
    /\ IF ~bCrateOk
       THEN /\ bPc' = "panicked"
            /\ UNCHANGED <<bResult, bCalls>>
       ELSE /\ bCalls' = Append(bCalls, "cbindgen")
            /\ IF bExtract.ok
               THEN bPc' = "write_to_file" /\ UNCHANGED bResult
               ELSE Return([err |-> "cbindgen"])
    /\ UNCHANGED <<bPrefix, bCrateOk, bDartRepo, bExtract, bOld, bFile,
                   bGenerated, bRes>>
    /\ UNCHANGED BindOthers

\* `.write_to_file(c_output_path)`: cbindgen writes the extracted header
\* to c_output_path and reports true, unless the file already holds exactly
\* that text, which it leaves alone and reports false.
CbindgenWriteToFile ==
    /\ bPc = "write_to_file"
    /\ IF bFile = File(bExtract.text)
       THEN /\ Return([err |-> "StringError",
                       msg |-> "cbindgen failed writing file"])
            /\ UNCHANGED bFile
       ELSE /\ bFile' = File(bExtract.text)
            /\ bPc' = "read"
            /\ UNCHANGED bResult
    /\ UNCHANGED <<bPrefix, bCrateOk, bDartRepo, bExtract, bOld, bGenerated,
                   bCalls, bRes>>
    /\ UNCHANGED BindOthers

\* let generated = std::fs::read_to_string(c_output_path)?;
CbindgenRead ==
    /\ bPc = "read"
    /\ \E io_ok \in BOOLEAN :
          IF io_ok
          THEN /\ bGenerated' = bFile.text
               /\ bPc' = "write"
               /\ UNCHANGED bResult
          ELSE /\ Return([err |-> "io", at |-> "read_to_string"])
               /\ UNCHANGED bGenerated
    /\ UNCHANGED <<bPrefix, bCrateOk, bDartRepo, bExtract, bOld, bFile,
                   bCalls, bRes>>
    /\ UNCHANGED BindOthers

\* std::fs::write(c_output_path, format!("// {prefix}\n{}", prefixed))?;
\* fs::write opens the file truncating it, then writes: it can fail before
\* the file is touched, or after it was truncated with part of the text
\* written.
CbindgenWrite ==
    /\ bPc = "write"
    /\ LET final == PrefixedHeader(bGenerated, bPrefix)
       IN  \E io \in {"ok", "open_failed", "write_failed"} :
              IF io = "ok"
              THEN /\ bFile' = File(final)
                   /\ bPc' = "ffigen"
                   /\ UNCHANGED bResult
              ELSE /\ bFile' = IF io = "open_failed" THEN bFile
                               ELSE File(SubSeq(final, 1, Len(final) \div 2))
                   /\ Return([err |-> "io", at |-> "write"])
    /\ UNCHANGED <<bPrefix, bCrateOk, bDartRepo, bExtract, bOld, bGenerated,
                   bCalls, bRes>>
    /\ UNCHANGED BindOthers

\* ffigen, up to the command: the config goes to a NamedTempFile (which can
\* fail), DartRepository::from_str(dart_root).unwrap() panics on a project
\* that cannot be read, and command_run!(..)? returns the error of a
\* process that could not be started.
FfigenRun ==
    /\ bPc = "ffigen"
    /\ \E tmp_ok \in BOOLEAN :
          IF ~tmp_ok
          THEN /\ Return([err |-> "io", at |-> "tempfile"])
               /\ UNCHANGED <<bCalls, bRes>>
          ELSE IF ~bDartRepo
          THEN /\ bPc' = "panicked"
               /\ UNCHANGED <<bResult, bCalls, bRes>>
          ELSE /\ bCalls' = Append(bCalls, "ffigen")
               /\ \E started \in BOOLEAN :
                     IF started
                     THEN /\ bRes' \in ProcessOutputs
                          /\ bPc' = "ffigen_status"
                          /\ UNCHANGED bResult
                     ELSE /\ Return([err |-> "io", at |-> "command_run"])
                          /\ UNCHANGED bRes
    /\ UNCHANGED <<bPrefix, bCrateOk, bDartRepo, bExtract, bOld, bFile,
                   bGenerated>>
    /\ UNCHANGED BindOthers

\* if !res.status.success() { .. }  Ok(())
FfigenStatus ==
    /\ bPc = "ffigen_status"
    /\ Return(FfigenClassify(bRes))
    /\ UNCHANGED <<bPrefix, bCrateOk, bDartRepo, bExtract, bOld, bFile,
                   bGenerated, bCalls, bRes>>
    /\ UNCHANGED BindOthers

Next ==
    \/ CbindgenGenerate
    \/ CbindgenWriteToFile
    \/ CbindgenRead
    \/ CbindgenWrite
    \/ FfigenRun
    \/ FfigenStatus

Spec == Init /\ [][Next]_vars

IsError(result) == result # Ok /\ result # [none |-> TRUE]

(***************************************************************************)
(* C8: ffigen classifies the binding generator's result: a successful exit *)
(* returns Ok; a non-zero exit whose stderr or stdout contains the         *)
(* signature returns FfigenLlvm; every other non-zero exit returns a       *)
(* generic failure carrying both streams; FfigenLlvm is never returned for *)
(* a run that lacks the signature.                                         *)
(***************************************************************************)
C8_FfigenClassification ==
    /\ (bPc = "done" /\ bRes # NoRes) =>
          /\ bRes.success => bResult = Ok
          /\ (~bRes.success /\ (Contains(bRes.stderr, Pat)
                                  \/ Contains(bRes.stdout, Pat)))
                => bResult = [err |-> "FfigenLlvm"]
          /\ (~bRes.success /\ ~Contains(bRes.stderr, Pat)
                            /\ ~Contains(bRes.stdout, Pat))
                => /\ bResult.err = "StringError"
                   /\ Contains(bResult.msg, "stderr: " \o bRes.stderr \o "\n")
                   /\ Contains(bResult.msg, "stdout: " \o bRes.stdout)
    /\ bResult = [err |-> "FfigenLlvm"] =>
          /\ bRes # NoRes
          /\ ~bRes.success
          /\ Contains(bRes.stderr, Pat) \/ Contains(bRes.stdout, Pat)

C8_Witness ==
    /\ bPc = "done"
    /\ bResult = [err |-> "FfigenLlvm"]
    /\ ~Contains(bRes.stderr, Pat)
    /\ Contains(bRes.stdout, Pat)

(***************************************************************************)
(* C10: after any error return of bindgen_rust_to_dart the header at       *)
(* c_output_path is absent or unchanged, or it is the fully prefixed final *)
(* header; it is never the extractor's unprefixed output or a part of the  *)
(* final text.                                                             *)
(***************************************************************************)
C10_NoHalfWrittenHeader ==
    (bPc = "done" /\ IsError(bResult)) =>
        \/ bFile = bOld
        \/ bExtract.ok /\ bFile = File(PrefixedHeader(bExtract.text, bPrefix))

\* How many times the tool was invoked.
Invocations(tool) == Cardinality({ i \in 1..Len(bCalls) : bCalls[i] = tool })

(***************************************************************************)
(* C11: in every run of bindgen_rust_to_dart each external tool is invoked *)
(* at most once (nothing is retried); the binding generator is invoked     *)
(* only after header extraction has succeeded and left the prefixed header *)
(* in place, so a failed extraction is returned as an error with the       *)
(* binding generator never invoked; and a non-zero exit of the binding     *)
(* generator is returned as an error, never as Ok.                         *)
(***************************************************************************)
C11_NoRetryErrorsSurface ==
    /\ Invocations("cbindgen") <= 1
    /\ Invocations("ffigen") <= 1
    /\ Invocations("ffigen") = 1 =>
          /\ bCalls = <<"cbindgen", "ffigen">>
          /\ bExtract.ok
          /\ bFile = File(PrefixedHeader(bExtract.text, bPrefix))
    /\ (bPc = "done" /\ bCalls = <<"cbindgen">>) => IsError(bResult)
    /\ (bPc = "done" /\ ~bExtract.ok) =>
          /\ bResult = [err |-> "cbindgen"]
          /\ Invocations("ffigen") = 0
    /\ (bPc = "done" /\ bRes # NoRes /\ ~bRes.success) => IsError(bResult)
    /\ (bPc = "done" /\ bResult = Ok) => (bRes # NoRes /\ bRes.success)

C11_Witness ==
    /\ bPc = "done"
    /\ bCalls = <<"cbindgen", "ffigen">>
    /\ bRes # NoRes
    /\ ~bRes.success
    /\ IsError(bResult)

====
